---- MODULE Spec2Model ----
(***************************************************************************)
(* A model of regulator.py: tokenization of DNS hostnames, the table of    *)
(* pairwise edit distances and the closures read from it, the synthesis of *)
(* a pattern from a closure, the compression of numeric alternations into  *)
(* digit ranges, the ratio test, and the search loops of main().           *)
(*                                                                         *)
(* A Python str is modelled as a sequence of one-character strings, so     *)
(* that splitting, joining, searching and replacing are computed as the    *)
(* code computes them.                                                     *)
(***************************************************************************)
EXTENDS Integers, Sequences, FiniteSets, TLC

VARIABLES
  tk_pc, tk_item, tk_ret,
  cr_pc, cr_regex, cr_ret,
  sy_pc, sy_members, sy_order, sy_ret,
  gr_pc, gr_nwords, gr_nkeys, gr_threshold, gr_ratio, gr_ret,
  mn_pc, mn_file, mn_order, known_hosts, trie, MEMO, new_rules, oracle,
  mn_k, mn_ngram, prefixes, mn_pi, last, keys,
  mn_prefix, mn_second, mn_added, mn_third, cl_items, cl_delta, cl_ret

tkVars == <<tk_pc, tk_item, tk_ret>>
crVars == <<cr_pc, cr_regex, cr_ret>>
syVars == <<sy_pc, sy_members, sy_order, sy_ret>>
grVars == <<gr_pc, gr_nwords, gr_nkeys, gr_threshold, gr_ratio, gr_ret>>
mnVars == <<mn_pc, mn_file, mn_order, known_hosts, trie, MEMO, new_rules, oracle,
            mn_k, mn_ngram, prefixes, mn_pi, last, keys,
            mn_prefix, mn_second, mn_added, mn_third, cl_items, cl_delta, cl_ret>>

(***************************************************************************)
(* Characters and strings.                                                 *)
(***************************************************************************)

Digits == {"0", "1", "2", "3", "4", "5", "6", "7", "8", "9"}

\* int(symbol) of one decimal digit
DigitVal(c) ==
  CASE c = "0" -> 0 [] c = "1" -> 1 [] c = "2" -> 2 [] c = "3" -> 3
    [] c = "4" -> 4 [] c = "5" -> 5 [] c = "6" -> 6 [] c = "7" -> 7
    [] c = "8" -> 8 [] c = "9" -> 9

\* str(d) of an int 0..9
DigitChr(d) ==
  CASE d = 0 -> "0" [] d = 1 -> "1" [] d = 2 -> "2" [] d = 3 -> "3"
    [] d = 4 -> "4" [] d = 5 -> "5" [] d = 6 -> "6" [] d = 7 -> "7"
    [] d = 8 -> "8" [] d = 9 -> "9"

\* string.ascii_lowercase
Lowercase ==
  <<"a", "b", "c", "d", "e", "f", "g", "h", "i", "j", "k", "l", "m",
    "n", "o", "p", "q", "r", "s", "t", "u", "v", "w", "x", "y", "z">>

LowercaseSet == {Lowercase[i] : i \in 1..Len(Lowercase)}

\* The code point order of the characters the model uses (Python compares
\* str by code point): ( ) - . 0-9 ? [ ] _ a-z |
CharRank(c) ==
  CASE c = "(" -> 40 [] c = ")" -> 41 [] c = "-" -> 45 [] c = "." -> 46
    [] c \in Digits -> 48 + DigitVal(c)
    [] c = "?" -> 63 [] c = "[" -> 91 [] c = "]" -> 93 [] c = "_" -> 95
    [] c \in LowercaseSet ->
         96 + (CHOOSE i \in 1..Len(Lowercase) : Lowercase[i] = c)
    [] c = "|" -> 124

IsDigit(c) == c \in Digits

\* str.isnumeric() on ASCII text: non-empty and all digits
IsNumeric(s) == Len(s) > 0 /\ \A i \in 1..Len(s) : IsDigit(s[i])

Min(S) == CHOOSE x \in S : \A y \in S : x <= y
Max(S) == CHOOSE x \in S : \A y \in S : x >= y

\* s[i:j] with 1-based inclusive bounds; empty when j < i
Slice(s, i, j) == IF j < i THEN <<>> ELSE SubSeq(s, i, j)

\* s.startswith(p)
StartsWith(s, p) == Len(p) <= Len(s) /\ SubSeq(s, 1, Len(p)) = p

\* s < t, as Python compares str
RECURSIVE StrLess(_, _)
StrLess(s, t) ==
  IF t = <<>> THEN FALSE
  ELSE IF s = <<>> THEN TRUE
  ELSE IF s[1] = t[1] THEN StrLess(Tail(s), Tail(t))
  ELSE CharRank(s[1]) < CharRank(t[1])

\* s[::-1]
RECURSIVE Reverse(_)
Reverse(s) == IF s = <<>> THEN <<>> ELSE Reverse(Tail(s)) \o <<s[1]>>

\* ''.join(parts)
RECURSIVE Concat(_)
Concat(parts) == IF parts = <<>> THEN <<>> ELSE parts[1] \o Concat(Tail(parts))

\* sep.join(parts)
RECURSIVE Join(_, _)
Join(parts, sep) ==
  IF parts = <<>> THEN <<>>
  ELSE IF Len(parts) = 1 THEN parts[1]
  ELSE parts[1] \o sep \o Join(Tail(parts), sep)

\* s.split(c) for a one-character separator: always at least one part
RECURSIVE SplitFrom(_, _, _, _)
SplitFrom(s, c, i, cur) ==
  IF i > Len(s) THEN <<cur>>
  ELSE IF s[i] = c THEN <<cur>> \o SplitFrom(s, c, i + 1, <<>>)
  ELSE SplitFrom(s, c, i + 1, Append(cur, s[i]))

Split(s, c) == SplitFrom(s, c, 1, <<>>)

\* sorted(S) of a set of str, as a sequence
RECURSIVE SortedStrs(_)
SortedStrs(S) ==
  IF S = {} THEN <<>>
  ELSE LET m == CHOOSE x \in S : \A y \in S \ {x} : StrLess(x, y)
       IN <<m>> \o SortedStrs(S \ {m})

\* the subsets of S of at most n elements
RECURSIVE SubsetsUpTo(_, _)
SubsetsUpTo(S, n) ==
  IF n = 0 THEN {{}}
  ELSE LET smaller == SubsetsUpTo(S, n - 1)
       IN smaller \cup {M \cup {x} : M \in smaller, x \in S}

\* the elements of a sequence
Range(q) == {q[i] : i \in 1..Len(q)}

\* q without its element at index i
RemoveAt(q, i) == SubSeq(q, 1, i - 1) \o SubSeq(q, i + 1, Len(q))

\* the elements of q in the order of their first occurrence
RECURSIVE Distinct(_)
Distinct(q) ==
  IF q = <<>> THEN <<>>
  ELSE LET front == Distinct(SubSeq(q, 1, Len(q) - 1))
       IN IF q[Len(q)] \in Range(front) THEN front ELSE Append(front, q[Len(q)])

\* the orders in which the elements of q can be walked
RECURSIVE Perms(_)
Perms(q) ==
  IF q = <<>> THEN {<<>>}
  ELSE UNION {{<<q[i]>> \o p : p \in Perms(RemoveAt(q, i))} : i \in 1..Len(q)}

(***************************************************************************)
(* Iteration of a set of str.  The order in which a Python set is walked   *)
(* is fixed, for one process, by the hashes of its elements and the order  *)
(* in which they were added; it differs between processes (hash seed).     *)
(* An order function maps the sequence in which the elements of a set were *)
(* added to the sequence in which the set is walked; a run of the program  *)
(* has one order function, found out set by set.                           *)
(***************************************************************************)

\* the walk of the set whose elements were added in the order added
SetIter(added, order) == IF Len(added) < 2 THEN added ELSE order[added]

\* the order functions that agree with order and settle the sets of Added
RECURSIVE Extensions(_, _)
Extensions(order, Added) ==
  LET open == {a \in Added : Len(a) >= 2 /\ a \notin DOMAIN order}
  IN IF open = {} THEN {order}
     ELSE LET a == CHOOSE a \in open : TRUE
          IN UNION {Extensions((a :> p) @@ order, Added) : p \in Perms(a)}

(***************************************************************************)
(* tokenize (lines 42-65).                                                 *)
(***************************************************************************)

\* tldextract.extract(item).subdomain, for a public suffix of one label:
\* the labels left of the registrable domain (the last two labels)
Subdomain(item) ==
  LET labels == Split(item, ".")
  IN IF Len(labels) <= 2 THEN <<>>
     ELSE Join(SubSeq(labels, 1, Len(labels) - 2), <<".">>)

\* [x for x in re.split('([0-9]+)', token) if len(x) > 0]: the maximal runs
\* of digits and of non-digits, in order
RECURSIVE Runs(_, _, _)
Runs(token, i, cur) ==
  IF i > Len(token) THEN (IF cur = <<>> THEN <<>> ELSE <<cur>>)
  ELSE IF cur = <<>> \/ IsDigit(cur[Len(cur)]) = IsDigit(token[i])
       THEN Runs(token, i + 1, Append(cur, token[i]))
       ELSE <<cur>> \o Runs(token, i + 1, <<token[i]>>)

ReSplitDigits(token) == Runs(token, 1, <<>>)

\* a loop over the subtokens that merges nothing
KeepHyphens(subtokens, i) == subtokens

\* the loop of lines 57-62 over the subtokens of one token: a lone '-' that
\* has a successor is merged into that successor, anything else is appended
RECURSIVE MergeHyphens(_, _)
MergeHyphens(subtokens, i) ==
  IF i > Len(subtokens) THEN <<>>
  ELSE IF subtokens[i] = <<"-">> /\ i + 1 <= Len(subtokens)
       THEN MergeHyphens([subtokens EXCEPT ![i + 1] = <<"-">> \o @], i + 1)
       ELSE <<subtokens[i]>> \o MergeHyphens(subtokens, i + 1)

\* line 54: every segment of item.split('-') after the first gets a '-'
HyphenSegments(item) ==
  LET segs == Split(item, "-")
  IN [i \in 1..Len(segs) |-> IF i # 1 THEN <<"-">> \o segs[i] ELSE segs[i]]

\* the tokens of one label (lines 53-62)
LabelTokens(item) ==
  LET tokens == HyphenSegments(item)
  IN Concat([i \in 1..Len(tokens) |-> MergeHyphens(ReSplitDigits(tokens[i]), 1)])

\* tokenize([item])[0]: the levels of one hostname
TokenizeOne(item) ==
  LET label == Split(Subdomain(item), ".")
  IN [i \in 1..Len(label) |-> LabelTokens(label[i])]

\* tokenize(items), items a sequence of hostnames
tokenize(items) == [m \in 1..Len(items) |-> TokenizeOne(items[m])]

(***************************************************************************)
(* compress_number_ranges (lines 68-135).                                  *)
(***************************************************************************)

\* re.match('-[0-9]+', token): a match at the start, not of the whole token
IsHyphenNum(token) == Len(token) >= 2 /\ token[1] = "-" /\ IsDigit(token[2])

IsNonNumber(token) == ~IsNumeric(token) /\ ~IsHyphenNum(token)

\* [token[1:] for token in q]
RECURSIVE Tails(_)
Tails(q) == IF q = <<>> THEN <<>> ELSE <<Tail(q[1])>> \o Tails(Tail(q))

\* the position of the first occurrence of old in s at or after i, 0 if none
RECURSIVE Find(_, _, _)
Find(s, old, i) ==
  IF i + Len(old) - 1 > Len(s) THEN 0
  ELSE IF SubSeq(s, i, i + Len(old) - 1) = old THEN i
  ELSE Find(s, old, i + 1)

\* s.replace(old, new): every non-overlapping occurrence, left to right
RECURSIVE ReplaceFrom(_, _, _, _)
ReplaceFrom(s, old, new, i) ==
  LET at == Find(s, old, i)
  IN IF at = 0 THEN Slice(s, i, Len(s))
     ELSE Slice(s, i, at - 1) \o new \o ReplaceFrom(s, old, new, at + Len(old))

Replace(s, old, new) == ReplaceFrom(s, old, new, 1)

\* the dictionaries of line 71 before the scan; hyphen is kept as its key set
NoGroups == [groups |-> <<>>, repl |-> <<>>, extra |-> <<>>, hyphen |-> {}]

\* lines 77-102 for the group closed at a ')': st is the state of groups,
\* repl, extra and hyphen, each dictionary keyed by the joined numbers g1
ScanGroup(group, st) ==
  LET tokens == Split(group, "|")
      numbers == SelectSeq(tokens, IsNumeric)
      nonnumbers == SelectSeq(tokens, IsNonNumber)
      hyphenatednumbers == Tails(SelectSeq(tokens, IsHyphenNum))
      g2 == Join(nonnumbers, <<"|">>)
      Put(g1, hy) ==
        [groups |-> Append(st.groups, g1),
         repl |-> (g1 :> group) @@ st.repl,
         extra |-> (g1 :> g2) @@ st.extra,
         hyphen |-> IF hy THEN st.hyphen \cup {g1} ELSE st.hyphen]
  IN IF \E i \in 1..Len(group) : group[i] \in {"?", ")", "("} THEN st
     ELSE IF Len(numbers) # 0 /\ Len(hyphenatednumbers) # 0 THEN st
     ELSE IF Len(numbers) > 1 THEN Put(Join(numbers, <<"|">>), FALSE)
     ELSE IF Len(hyphenatednumbers) > 1
          THEN Put(Join(hyphenatednumbers, <<"|">>), TRUE)
     ELSE st

\* the first loop (lines 72-102): i is the 1-based index of the character
RECURSIVE Scan(_, _, _, _)
Scan(regex, i, stack, st) ==
  IF i > Len(regex) THEN st
  ELSE IF regex[i] = "(" THEN Scan(regex, i + 1, Append(stack, i), st)
  ELSE IF regex[i] = ")"
       THEN LET start == stack[Len(stack)]
            IN Scan(regex, i + 1, SubSeq(stack, 1, Len(stack) - 1),
                    ScanGroup(Slice(regex, start + 1, i - 1), st))
  ELSE Scan(regex, i + 1, stack, st)

\* int(symbol) raises ValueError on a symbol that is no digit
GroupRaises(group) == \E i \in 1..Len(group) : group[i] \notin Digits \cup {"|"}

\* lines 119-128: the digit positions from the most significant one down;
\* tokens are the reversed numbers, position p is 1-based from the right
RECURSIVE EmitPositions(_, _, _)
EmitPositions(tokens, p, shortest) ==
  IF p < 1 THEN <<>>
  ELSE LET symbols == {DigitVal(tokens[k][p]) :
                         k \in {k \in 1..Len(tokens) : Len(tokens[k]) >= p}}
           optional == p > shortest
           start == Min(symbols)
           end == Max(symbols)
           piece == IF start # end
                    THEN <<"[", DigitChr(start), "-", DigitChr(end), "]">>
                    ELSE <<DigitChr(start)>>
       IN piece \o (IF optional THEN <<"?">> ELSE <<>>)
            \o EmitPositions(tokens, p - 1, shortest)

\* lines 104-133: the expression that replaces the group recorded under g1
Generalized(group, st) ==
  LET parts == Split(group, "|")
      tokens == [k \in 1..Len(parts) |-> Reverse(parts[k])]
      lens == {Len(tokens[k]) : k \in 1..Len(tokens)}
      body == (IF group \in st.hyphen THEN <<"(", "-">> ELSE <<"(">>)
                \o EmitPositions(tokens, Max(lens), Min(lens)) \o <<")">>
      ext == st.extra[group]
  IN IF ext # <<>>
     THEN <<"(">> \o body \o <<"|", "(">> \o ext \o <<")", ")">>
     ELSE body

\* what each iteration of the second loop substitutes: the text searched
\* for, '(' + repl[group] + ')', and the expression put in its place
Rewrites(regex) ==
  LET st == Scan(regex, 1, <<>>, NoGroups)
  IN [k \in 1..Len(st.groups) |->
        [old |-> <<"(">> \o st.repl[st.groups[k]] \o <<")">>,
         rep |-> st.repl[st.groups[k]],
         new |-> Generalized(st.groups[k], st)]]

RECURSIVE ApplyRewrites(_, _, _)
ApplyRewrites(ret, rw, k) ==
  IF k > Len(rw) THEN ret
  ELSE ApplyRewrites(Replace(ret, rw[k].old, rw[k].new), rw, k + 1)

\* the outcome of a call that raises ValueError
PyValueError == <<"ValueError">>

compress_number_ranges(regex) ==
  LET st == Scan(regex, 1, <<>>, NoGroups)
  IN IF \E k \in 1..Len(st.groups) : GroupRaises(st.groups[k])
     THEN PyValueError
     ELSE ApplyRewrites(regex, Rewrites(regex), 1)

(***************************************************************************)
(* closure_to_regex (lines 138-174).                                       *)
(***************************************************************************)

\* optional[i][j] (line 152): the tokens at position j of level i, one per
\* member that has that position, in member order
OptionalAt(tokens, i, j) ==
  LET has == SelectSeq([m \in 1..Len(tokens) |-> m],
                       LAMBDA m : Len(tokens[m]) >= i /\ Len(tokens[m][i]) >= j)
  IN [k \in 1..Len(has) |-> tokens[has[k]][i][j]]

\* levels[i][j] (line 151), as the sequence in which its tokens were added
LevelsAt(tokens, i, j) == Distinct(OptionalAt(tokens, i, j))

\* the number of keys of levels (lines 144-146), and of levels[i]
NumLevels(tokens) == Max({Len(tokens[m]) : m \in 1..Len(tokens)} \cup {0})

NumPositions(tokens, i) ==
  Max({Len(tokens[m][i]) : m \in {m \in 1..Len(tokens) : Len(tokens[m]) >= i}}
        \cup {0})

\* lines 156-168 for position j of level i (both 1-based)
PositionText(tokens, i, j, order) ==
  LET alt == Join(SetIter(LevelsAt(tokens, i, j), order), <<"|">>)
      k == Len(LevelsAt(tokens, i, j))
      isoptional == Len(OptionalAt(tokens, i, j)) # Len(tokens)
  IN IF i = 1 /\ j = 1 THEN <<"(">> \o alt \o <<")">>
     ELSE IF k = 1 /\ j = 1 THEN alt
     ELSE <<"(">> \o alt \o <<")">> \o (IF isoptional THEN <<"?">> ELSE <<>>)

\* line 171: zip(*optional[level].values()), each tuple joined
LevelValues(tokens, i) ==
  LET np == NumPositions(tokens, i)
      n == IF np = 0 THEN 0
           ELSE Min({Len(OptionalAt(tokens, i, j)) : j \in 1..np})
  IN [k \in 1..n |-> Concat([j \in 1..np |-> OptionalAt(tokens, i, j)[k]])]

\* lines 154-173 for level i
LevelText(tokens, i, order) ==
  LET np == NumPositions(tokens, i)
      n == (IF i # 1 THEN <<"(", ".">> ELSE <<>>)
             \o Concat([j \in 1..np |-> PositionText(tokens, i, j, order)])
      values == LevelValues(tokens, i)
      isoptional == Cardinality(Range(values)) # 1 \/ Len(values) # Len(tokens)
  IN IF i # 1
     THEN n \o (IF isoptional THEN <<")", "?">> ELSE <<")">>)
     ELSE n

\* the pattern before compression (the argument of line 174)
Uncompressed(domain, members, order) ==
  LET tokens == tokenize(members)
  IN Concat([i \in 1..NumLevels(tokens) |-> LevelText(tokens, i, order)])
       \o <<".">> \o domain

\* members is the sequence in which the closure is walked (a list as it
\* is, a set by SetIter); order settles every set of tokens the call joins
closure_to_regex(domain, members, order) ==
  compress_number_ranges(Uncompressed(domain, members, order))

\* the sets levels[i][j] that closure_to_regex(domain, members) joins
JoinedSets(members) ==
  LET tokens == tokenize(members)
  IN UNION {{LevelsAt(tokens, i, j) : j \in 1..NumPositions(tokens, i)} :
              i \in 1..NumLevels(tokens)}

(***************************************************************************)
(* re.fullmatch for the dialect of the emitted patterns: literals, '.',    *)
(* groups of alternatives, digit ranges [x-y] and the suffix '?'.          *)
(***************************************************************************)

\* the index of the ')' that closes the group opened before i
RECURSIVE CloseOf(_, _, _)
CloseOf(r, i, depth) ==
  IF r[i] = ")" THEN (IF depth = 0 THEN i ELSE CloseOf(r, i + 1, depth - 1))
  ELSE IF r[i] = "(" THEN CloseOf(r, i + 1, depth + 1)
  ELSE CloseOf(r, i + 1, depth)

\* the first '|' of r[i..j] outside any group, j + 1 if there is none
RECURSIVE NextBar(_, _, _, _)
NextBar(r, i, j, depth) ==
  IF i > j THEN j + 1
  ELSE IF r[i] = "|" /\ depth = 0 THEN i
  ELSE NextBar(r, i + 1, j,
               IF r[i] = "(" THEN depth + 1
               ELSE IF r[i] = ")" THEN depth - 1 ELSE depth)

\* the positions of s at which a match of r[i..j] that starts at a position
\* of P can end
RECURSIVE MatchAlt(_, _, _, _, _)
RECURSIVE MatchSeq(_, _, _, _, _)
MatchAlt(r, i, j, s, P) ==
  LET b == NextBar(r, i, j, 0)
  IN IF b > j THEN MatchSeq(r, i, j, s, P)
     ELSE MatchSeq(r, i, b - 1, s, P) \cup MatchAlt(r, b + 1, j, s, P)

MatchSeq(r, i, j, s, P) ==
  IF i > j \/ P = {} THEN P
  ELSE LET c == r[i]
           e == IF c = "(" THEN CloseOf(r, i + 1, 0)
                ELSE IF c = "[" THEN i + 4 ELSE i
           opt == e < j /\ r[e + 1] = "?"
           here == {p \in P : p <= Len(s)}
           Q == IF c = "(" THEN MatchAlt(r, i + 1, e - 1, s, P)
                ELSE IF c = "["
                THEN {p + 1 : p \in {p \in here :
                        /\ IsDigit(s[p])
                        /\ DigitVal(r[i + 1]) <= DigitVal(s[p])
                        /\ DigitVal(s[p]) <= DigitVal(r[i + 3])}}
                ELSE IF c = "." THEN {p + 1 : p \in here}
                ELSE {p + 1 : p \in {p \in here : s[p] = c}}
       IN MatchSeq(r, IF opt THEN e + 2 ELSE e + 1, j, s,
                   Q \cup (IF opt THEN P ELSE {}))

FullMatch(r, s) == (Len(s) + 1) \in MatchAlt(r, 1, Len(r), s, {1})

(***************************************************************************)
(* Tokenization of one hostname.                                           *)
(***************************************************************************)

\* the target domain of the run (args['target'])
Target == <<"e", ".", "c">>

\* longest subdomain text the tokenization inputs are drawn from
MaxSubLen == 4

TokAlphabet == {"a", "1", "-", "."}

\* subdomain texts: hyphens, digits, letters and dots in any arrangement
SubTexts(n) == UNION {[1..k -> TokAlphabet] : k \in 1..n}

TkIdle == tk_pc = "idle" /\ tk_item = <<>> /\ tk_ret = <<>>

TkInit ==
  /\ tk_pc = "start"
  /\ tk_item \in {sub \o <<".">> \o Target : sub \in SubTexts(MaxSubLen)}
  /\ tk_ret = <<>>

Tokenize ==
  /\ tk_pc = "start"
  /\ tk_ret' = TokenizeOne(tk_item)
  /\ tk_pc' = "done"
  /\ UNCHANGED tk_item
(***************************************************************************)
(* Range compression of one pattern.                                       *)
(***************************************************************************)

\* most alternatives in a group of an input pattern
MaxAlts == 3

\* alternatives of the kinds the synthesizer emits: numbers of one and two
\* digits, numbers with a hyphen before them, a word
AltPool == {<<"1">>, <<"2">>, <<"1", "0">>, <<"-", "1">>, <<"-", "2">>, <<"a">>}

\* the alternations of n distinct alternatives, in every order
AltTexts(n) ==
  {Join(q, <<"|">>) :
     q \in {q \in [1..n -> AltPool] : \A i, j \in 1..n : i # j => q[i] # q[j]}}

GroupTexts == UNION {AltTexts(n) : n \in 2..MaxAlts}

\* patterns of one group, and of two groups around a literal
CompressInputs ==
  {<<"(">> \o g \o <<")">> : g \in GroupTexts}
    \cup {<<"(">> \o g \o <<")", "x", "(">> \o h \o <<")">> :
            g \in GroupTexts, h \in AltTexts(2)}

CrIdle == cr_pc = "idle" /\ cr_regex = <<>> /\ cr_ret = <<>>

CrInit ==
  /\ cr_pc = "start"
  /\ cr_regex \in CompressInputs
  /\ cr_ret = <<>>

Compress ==
  /\ cr_pc = "start"
  /\ cr_ret' = compress_number_ranges(cr_regex)
  /\ cr_pc' = "done"
  /\ UNCHANGED cr_regex

\* the rewrites of the second loop that find their text in the pattern
RECURSIVE AppliedRewrites(_, _, _)
AppliedRewrites(ret, rw, k) ==
  IF k > Len(rw) THEN {}
  ELSE (IF Find(ret, rw[k].old, 1) # 0 THEN {rw[k]} ELSE {})
         \cup AppliedRewrites(Replace(ret, rw[k].old, rw[k].new), rw, k + 1)

(***************************************************************************)
(* Synthesis of the pattern of one closure.                                *)
(***************************************************************************)

\* most members of a closure handed to the synthesizer
MaxMembers == 2

SynFirsts == {<<"a">>, <<"b">>}
SynMids == {<<>>, <<"1">>, <<"2">>, <<"1", "0">>, <<"-", "1">>, <<"-", "2">>}
SynLasts == {<<>>, <<"x", "1">>, <<"x", "2">>, <<"-", "1">>, <<"-", "2">>,
             <<".", "1">>, <<".", "2">>}

\* well-formed hostnames under the target: a word, then numbers with and
\* without hyphens, in one or two labels
SynHosts ==
  {f \o m \o l \o <<".">> \o Target : f \in SynFirsts, m \in SynMids, l \in SynLasts}

SyIdle == sy_pc = "idle" /\ sy_members = <<>> /\ sy_order = <<>> /\ sy_ret = <<>>

\* the members in the order in which the closure is walked
SyInit ==
  /\ sy_pc = "start"
  /\ sy_members \in
       UNION {Perms(SortedStrs(M)) :
                M \in {M \in SubsetsUpTo(SynHosts, MaxMembers) : Cardinality(M) >= 2}}
  /\ sy_order = <<>>
  /\ sy_ret = <<>>

Synthesize ==
  /\ sy_pc = "start"
  /\ \E order \in Extensions(<<>>, JoinedSets(sy_members)) :
       /\ sy_order' = order
       /\ sy_ret' = closure_to_regex(Target, sy_members, order)
  /\ sy_pc' = "done"
  /\ UNCHANGED sy_members

(***************************************************************************)
(* is_good_rule (lines 177-181).                                           *)
(***************************************************************************)

\* max_ratio is a float; the model holds it as the fraction num/den and
\* compares nwords/nkeys with it exactly
is_good_rule_at_threshold(nwords, nkeys, threshold, max_ratio) ==
  nwords <= threshold \/ nwords * max_ratio.den < max_ratio.num * nkeys

\* nwords is what DankEncoder(regex, 256).num_words(1, 256) returns
is_good_rule(nwords, nkeys, threshold, max_ratio) ==
  nwords < threshold \/ nwords * max_ratio.den < max_ratio.num * nkeys

MaxWords == 6
MaxKeys == 3
MaxThreshold == 4

Ratios == {[num |-> 1, den |-> 2], [num |-> 1, den |-> 1],
           [num |-> 3, den |-> 2], [num |-> 2, den |-> 1]}

GrIdle ==
  /\ gr_pc = "idle" /\ gr_nwords = 0 /\ gr_nkeys = 1 /\ gr_threshold = 0
  /\ gr_ratio = [num |-> 1, den |-> 1] /\ gr_ret = FALSE

GrInit ==
  /\ gr_pc = "start"
  /\ gr_nwords \in 0..MaxWords
  /\ gr_nkeys \in 1..MaxKeys
  /\ gr_threshold \in 0..MaxThreshold
  /\ gr_ratio \in Ratios
  /\ gr_ret = FALSE

IsGoodRule ==
  /\ gr_pc = "start"
  /\ gr_ret' = is_good_rule(gr_nwords, gr_nkeys, gr_threshold, gr_ratio)
  /\ gr_pc' = "done"
  /\ UNCHANGED <<gr_nwords, gr_nkeys, gr_threshold, gr_ratio>>

(***************************************************************************)
(* edit_closures and the table of distances (lines 22-39, 228-229).        *)
(***************************************************************************)

Min3(a, b, c) == Min({a, b, c})

\* one row of the Levenshtein table, from the row above: row[j + 1] is the
\* distance of s[1..i] to t[1..j]; acc holds the row up to column j - 1
RECURSIVE LevRow(_, _, _, _, _, _)
LevRow(s, t, i, prev, j, acc) ==
  IF j > Len(t) \/ Len(acc) # j THEN acc
  ELSE LevRow(s, t, i, prev, j + 1,
              Append(acc, Min3(prev[j + 1] + 1, acc[j] + 1,
                               prev[j] + (IF s[i] = t[j] THEN 0 ELSE 1))))

RECURSIVE LevFrom(_, _, _, _)
LevFrom(s, t, i, prev) ==
  IF i > Len(s) \/ Len(prev) # Len(t) + 1 THEN prev[Len(t) + 1]
  ELSE LevFrom(s, t, i + 1, LevRow(s, t, i, prev, 1, <<i>>))

\* editdistance.eval(s, t): the Levenshtein distance of two str
EditDistance(s, t) == LevFrom(s, t, 1, [j \in 1..(Len(t) + 1) |-> j - 1])

\* combinations_with_replacement(hosts, 2): the pairs (hosts[i], hosts[j])
\* with i <= j, in the order of the nested loops
RECURSIVE CombinationsFrom(_, _, _)
CombinationsFrom(hosts, i, j) ==
  IF i > Len(hosts) THEN <<>>
  ELSE IF j > Len(hosts) THEN CombinationsFrom(hosts, i + 1, i + 1)
  ELSE <<<<hosts[i], hosts[j]>>>> \o CombinationsFrom(hosts, i, j + 1)

\* lines 228-229: MEMO[s+t] = editdistance.eval(s, t) for every pair, a
\* later pair overwriting an earlier one stored under the same key
RECURSIVE BuildMemo(_, _, _)
BuildMemo(memo, pairs, k) ==
  IF k > Len(pairs) THEN memo
  ELSE LET s == pairs[k][1]
           t == pairs[k][2]
       IN BuildMemo(((s \o t) :> EditDistance(s, t)) @@ memo, pairs, k + 1)

\* line 30: MEMO[a+b] if a+b in MEMO else MEMO[b+a]
MemoGet(memo, a, b) ==
  IF (a \o b) \in DOMAIN memo THEN memo[a \o b] ELSE memo[b \o a]

\* a comparison that also takes a distance equal to delta
WithinDeltaInclusive(dist, delta) == dist <= delta

\* line 31
WithinDelta(dist, delta) == dist < delta

\* lines 28-32: the set r of pivot a, as the sequence in which its hosts
\* were added: a, then the other hosts within delta in the order of items
PivotSet(memo, items, a, delta) ==
  <<a>> \o SelectSeq(items, LAMBDA b : b # a /\ WithinDelta(MemoGet(memo, a, b), delta))

\* lines 33-38: r is appended unless an equal set is already in ret
AppendIfNew(ret, r) ==
  IF \E i \in 1..Len(ret) : Range(ret[i]) = Range(r) THEN ret ELSE Append(ret, r)

RECURSIVE EditClosuresFrom(_, _, _, _, _)
EditClosuresFrom(memo, items, delta, i, ret) ==
  IF i > Len(items) THEN ret
  ELSE EditClosuresFrom(memo, items, delta, i + 1,
                        AppendIfNew(ret, PivotSet(memo, items, items[i], delta)))

\* edit_closures(items, delta), reading the global MEMO; every set of the
\* result is given as the sequence in which its hosts were added
edit_closures(memo, items, delta) == EditClosuresFrom(memo, items, delta, 1, <<>>)

(***************************************************************************)
(* main (lines 190-289).                                                   *)
(***************************************************************************)

\* args: the defaults of lines 195-198, and the upper end of the sweep
Threshold == 500
MaxRatio == [num |-> 25, den |-> 1]
MaxLength == 1000
DistLow == 2
DistHigh == 3

\* most lines of the hosts file
MaxFile == 3

\* what the cardinality oracle can answer for a pattern
CountFew == 4
CountMany == 600
Counts == {CountFew, CountMany}

\* the value None of last
None == <<"None">>

\* line 19: string.ascii_lowercase + string.digits + '._-'
DNS_CHARS == LowercaseSet \cup Digits \cup {".", "_", "-"}

\* line 252: the unigrams and bigrams; the loop of line 253 walks them in
\* the order of StrLess
Ngrams == {<<c>> : c \in DNS_CHARS} \cup {<<c, d>> : c, d \in DNS_CHARS}

\* a hostname of two tokens that is far from the shorter ones of FilePool
Numbered == <<"a", "-", "1", "1", ".", "e", ".", "c">>

\* the lines of the hosts file, stripped: a blank line, the target itself,
\* a bare suffix, a chain of hostnames each the previous one written again
\* after the first, and hostnames whose first tokens extend one another
FilePool ==
  { <<>>, Target, <<"c">>,
    Numbered, Numbered \o Numbered, Numbered \o Numbered \o Numbered,
    <<"a", "b", ".", "e", ".", "c">>,
    <<"a", "b", "c", ".", "e", ".", "c">> }

\* line 219: the hostname has a first level with a first token
WellFormed(host) ==
  LET tokens == tokenize(<<host>>)
  IN Len(tokens) > 0 /\ Len(tokens[1]) > 0 /\ Len(tokens[1][1]) > 0

\* lines 216-223: the for loop reads known_hosts by index while the body
\* removes from it, so the element after a removed one is never visited
RECURSIVE LoadLoop(_, _, _)
LoadLoop(hosts, i, tr) ==
  IF i > Len(hosts) THEN [known_hosts |-> hosts, trie |-> tr]
  ELSE IF hosts[i] = Target THEN LoadLoop(hosts, i + 1, tr)
  ELSE IF WellFormed(hosts[i]) THEN LoadLoop(hosts, i + 1, tr \cup {hosts[i]})
  ELSE \* known_hosts.remove(host): the hosts are distinct
       LoadLoop(RemoveAt(hosts, i), i + 1, tr)

\* trie.keys(prefix)
TrieKeys(tr, prefix) == SortedStrs({h \in tr : StartsWith(h, prefix)})

\* first_token (lines 210-212)
first_token(item) == tokenize(<<item>>)[1][1][1]

\* line 271 with the test dropped: no prefix is ever redundant
NeverRedundant(lst, prefix) == FALSE

\* line 271: the prefix extends the last accepted prefix of the walk
Redundant(lst, prefix) == ~(lst = None \/ ~StartsWith(prefix, lst))

\* line 238: the global sweep synthesizes the closures of several hosts
ClosuresOfSeveral(closures) == SelectSeq(closures, LAMBDA c : Len(c) > 1)

\* a third chance that passes over the closures of one host
SkipSingletons(closures) == SelectSeq(closures, LAMBDA c : Len(c) # 1)

\* lines 281-283: the third chance synthesizes every closure
ThirdChanceClosures(closures) == closures

\* the closures as closure_to_regex walks them
Walked(closures, order) == [i \in 1..Len(closures) |-> SetIter(closures[i], order)]

\* the sets of tokens joined for the closures
JoinedSetsOfAll(walked) == UNION {JoinedSets(walked[i]) : i \in 1..Len(walked)}

\* the patterns of a list of closures with their evidence counts
ClosureTests(closures, order) ==
  [i \in 1..Len(closures) |->
     [r |-> closure_to_regex(Target, SetIter(closures[i], order), order),
      n |-> Len(closures[i])]]

\* `r not in new_rules and is_good_rule(...)` then new_rules.add(r), over
\* the tests of one step; orc gives the oracle's count of each pattern
RECURSIVE RunTests(_, _, _, _)
RunTests(rules, tests, orc, k) ==
  IF k > Len(tests) THEN rules
  ELSE LET t == tests[k]
           add == t.r \notin rules
                    /\ is_good_rule(orc[t.r], t.n, Threshold, MaxRatio)
       IN RunTests(IF add THEN rules \cup {t.r} ELSE rules, tests, orc, k + 1)

\* the patterns of a step for which the oracle is asked for the first time
Unasked(tests) ==
  {tests[k].r : k \in 1..Len(tests)} \ (new_rules \cup DOMAIN oracle)

MnIdle ==
  /\ mn_pc = "idle" /\ mn_file = {} /\ mn_order = <<>> /\ known_hosts = <<>>
  /\ trie = {} /\ MEMO = <<>> /\ new_rules = {} /\ oracle = <<>>
  /\ mn_k = 0 /\ mn_ngram = None /\ prefixes = <<>> /\ mn_pi = 0 /\ last = None
  /\ keys = <<>> /\ mn_prefix = None /\ mn_second = "none"
  /\ mn_added = <<>> /\ mn_third = <<>>
  /\ cl_items = <<>> /\ cl_delta = 0 /\ cl_ret = <<>>

MnInit ==
  /\ mn_pc = "load"
  /\ mn_file \in SubsetsUpTo(FilePool, MaxFile)
  /\ mn_order = <<>>
  /\ known_hosts = <<>>
  /\ trie = {} /\ MEMO = <<>> /\ new_rules = {} /\ oracle = <<>>
  /\ mn_k = 0 /\ mn_ngram = None /\ prefixes = <<>> /\ mn_pi = 0 /\ last = None
  /\ keys = <<>> /\ mn_prefix = None /\ mn_second = "none"
  /\ mn_added = <<>> /\ mn_third = <<>>
  /\ cl_items = <<>> /\ cl_delta = 0 /\ cl_ret = <<>>

walkVars == <<mn_ngram, prefixes, mn_pi, last, keys,
              mn_prefix, mn_second, mn_added, mn_third>>
callVars == <<cl_items, cl_delta, cl_ret>>
restVars == <<tkVars, crVars, syVars, grVars>>

\* lines 214-223
LoadHosts ==
  /\ mn_pc = "load"
  /\ LET loaded == LoadLoop(SortedStrs(mn_file), 1, {})
     IN /\ known_hosts' = loaded.known_hosts
        /\ trie' = loaded.trie
  /\ mn_pc' = "memo"
  /\ UNCHANGED <<mn_file, mn_order, MEMO, new_rules, oracle, mn_k, walkVars, callVars>>
  /\ UNCHANGED restVars

\* lines 228-229
BuildTable ==
  /\ mn_pc = "memo"
  /\ MEMO' = BuildMemo(<<>>, CombinationsFrom(known_hosts, 1, 1), 1)
  /\ mn_pc' = "sweep"
  /\ mn_k' = DistLow
  /\ UNCHANGED <<mn_file, mn_order, known_hosts, trie, new_rules, oracle,
                 walkVars, callVars>>
  /\ UNCHANGED restVars

\* lines 234-249, one k of the sweep over all hosts
GlobalSweep ==
  /\ mn_pc = "sweep"
  /\ mn_k < DistHigh
  /\ \E closures \in {edit_closures(MEMO, known_hosts, mn_k)} :
     LET swept == ClosuresOfSeveral(closures)
     IN /\ \E hostorder \in Extensions(mn_order, Range(swept)) :
           \E order \in Extensions(hostorder,
                                   JoinedSetsOfAll(Walked(swept, hostorder))) :
             \E tests \in {SelectSeq(ClosureTests(swept, order),
                                      LAMBDA t : ~(Len(t.r) > MaxLength))} :
                /\ mn_order' = order
                /\ \E orc \in {f @@ oracle : f \in [Unasked(tests) -> Counts]} :
                     /\ oracle' = (IF Unasked(tests) = {} THEN oracle ELSE orc)
                     /\ new_rules' = RunTests(new_rules, tests, orc, 1)
        /\ cl_items' = known_hosts
        /\ cl_delta' = mn_k
        /\ cl_ret' = closures
  /\ mn_k' = mn_k + 1
  /\ UNCHANGED <<mn_pc, mn_file, known_hosts, trie, MEMO, walkVars>>
  /\ UNCHANGED restVars

\* the sweep is over: on to the n-grams
SweepDone ==
  /\ mn_pc = "sweep"
  /\ ~(mn_k < DistHigh)
  /\ mn_pc' = "ngram"
  /\ UNCHANGED <<mn_file, mn_order, known_hosts, trie, MEMO, new_rules, oracle,
                 mn_k, walkVars, callVars>>
  /\ UNCHANGED restVars

\* the n-grams after the n-gram g (after None: all) that some host starts
\* with; lines 254-256 skip the others.  A host starts with an n-gram iff
\* the n-gram is its first character or its first two.
NgramsLeft(tr, g) ==
  {n \in UNION {{Slice(h, 1, 1), Slice(h, 1, 2)} : h \in tr} :
     n \in Ngrams /\ (g = None \/ StrLess(g, n))}

\* lines 253-263 for the next n-gram that has hosts: the first chance, and
\* the sorted first tokens of its hosts
NgramStep ==
  /\ mn_pc = "ngram"
  /\ NgramsLeft(trie, mn_ngram) # {}
  /\ LET g == SortedStrs(NgramsLeft(trie, mn_ngram))[1]
         ks == TrieKeys(trie, g)
     IN /\ \E order \in Extensions(mn_order, JoinedSets(ks)) :
             \E tests \in {<<[r |-> closure_to_regex(Target, ks, order),
                               n |-> Len(ks)]>>} :
                /\ mn_order' = order
                /\ \E orc \in {f @@ oracle : f \in [Unasked(tests) -> Counts]} :
                     /\ oracle' = (IF Unasked(tests) = {} THEN oracle ELSE orc)
                     /\ new_rules' = RunTests(new_rules, tests, orc, 1)
        /\ mn_ngram' = g
        /\ keys' = ks
        /\ prefixes' = SortedStrs({first_token(ks[i]) : i \in 1..Len(ks)})
  /\ last' = None
  /\ mn_pi' = 1
  /\ mn_pc' = "prefix"
  /\ mn_prefix' = None
  /\ mn_second' = "none"
  /\ mn_added' = <<>>
  /\ mn_third' = <<>>
  /\ UNCHANGED <<mn_file, known_hosts, trie, MEMO, mn_k, callVars>>
  /\ UNCHANGED restVars

\* no n-gram with hosts is left: the loop of line 253 runs out, and keys
\* is what line 254 read for the last n-gram, 'zz'
NgramsDone ==
  /\ mn_pc = "ngram"
  /\ NgramsLeft(trie, mn_ngram) = {}
  /\ mn_pc' = "done"
  /\ keys' = TrieKeys(trie, <<"z", "z">>)
  /\ UNCHANGED <<mn_file, mn_order, known_hosts, trie, MEMO, new_rules, oracle,
                 mn_k, mn_ngram, prefixes, mn_pi, last,
                 mn_prefix, mn_second, mn_added, mn_third, callVars>>
  /\ UNCHANGED restVars

\* the walk goes on with the next prefix, or the loop with the next n-gram
NextPrefix ==
  IF mn_pi < Len(prefixes)
  THEN mn_pc' = "prefix" /\ mn_pi' = mn_pi + 1
  ELSE mn_pc' = "ngram" /\ mn_pi' = mn_pi

\* line 278: a prefix of more than one character goes on to the third
\* chance, any other ends its turn
AfterSecondChance(prefix) ==
  IF Len(prefix) > 1 /\ DistLow < DistHigh
  THEN mn_pc' = "third" /\ mn_k' = DistLow /\ UNCHANGED mn_pi
  ELSE NextPrefix /\ UNCHANGED mn_k

\* lines 264-278 for one prefix of the walk: the second chance.  mn_second
\* records its outcome and mn_added the prefixes whose patterns it added
\* in this walk.
SecondChance ==
  /\ mn_pc = "prefix"
  /\ LET prefix == prefixes[mn_pi]
         ks == TrieKeys(trie, prefix)
     IN /\ keys' = ks
        /\ mn_prefix' = prefix
        /\ mn_third' = <<>>
        /\ \E order \in Extensions(mn_order, JoinedSets(ks)) :
             \E r \in {closure_to_regex(Target, ks, order)} :
             LET tests == <<[r |-> r, n |-> Len(ks)]>>
             IN /\ mn_order' = order
                /\ \E orc \in {f @@ oracle : f \in [Unasked(tests) -> Counts]} :
                     /\ oracle' = (IF Unasked(tests) = {} THEN oracle ELSE orc)
                     /\ IF r \notin new_rules
                             /\ is_good_rule(orc[r], Len(ks), Threshold, MaxRatio)
                        THEN IF Redundant(last, prefix)
                             THEN \* lines 274-275: warn and continue
                                  /\ mn_second' = "redundant"
                                  /\ UNCHANGED <<new_rules, last, mn_added, mn_k>>
                                  /\ NextPrefix
                             ELSE \* lines 272 and 276
                                  /\ mn_second' = "accepted"
                                  /\ last' = prefix
                                  /\ new_rules' = new_rules \cup {r}
                                  /\ mn_added' = Append(mn_added, prefix)
                                  /\ AfterSecondChance(prefix)
                        ELSE /\ mn_second' =
                                  IF r \in new_rules THEN "present" ELSE "failed"
                             /\ UNCHANGED <<new_rules, last, mn_added>>
                             /\ AfterSecondChance(prefix)
  /\ UNCHANGED <<mn_file, known_hosts, trie, MEMO, mn_ngram, prefixes, callVars>>
  /\ UNCHANGED restVars

\* lines 279-289 for one k: the third chance over the hosts of the prefix
ThirdChance ==
  /\ mn_pc = "third"
  /\ \E closures \in {edit_closures(MEMO, keys, mn_k)} :
     LET swept == ThirdChanceClosures(closures)
     IN /\ \E hostorder \in Extensions(mn_order, Range(swept)) :
           \E order \in Extensions(hostorder,
                                   JoinedSetsOfAll(Walked(swept, hostorder))) :
             \E tests \in {ClosureTests(swept, order)} :
                /\ mn_order' = order
                /\ \E orc \in {f @@ oracle : f \in [Unasked(tests) -> Counts]} :
                     /\ oracle' = (IF Unasked(tests) = {} THEN oracle ELSE orc)
                     /\ new_rules' = RunTests(new_rules, tests, orc, 1)
        /\ mn_third' = Append(mn_third, [k |-> mn_k, closures |-> swept])
        /\ cl_items' = keys
        /\ cl_delta' = mn_k
        /\ cl_ret' = closures
  /\ mn_k' = mn_k + 1
  /\ IF mn_k + 1 < DistHigh
     THEN UNCHANGED <<mn_pc, mn_pi>>
     ELSE NextPrefix
  /\ UNCHANGED <<mn_file, known_hosts, trie, MEMO, mn_ngram, prefixes, last, keys,
                 mn_prefix, mn_second, mn_added>>
  /\ UNCHANGED restVars

(***************************************************************************)
(* Specifications.                                                         *)
(***************************************************************************)

vars == <<tkVars, crVars, syVars, grVars, mnVars>>

InitTokenize == TkInit /\ CrIdle /\ SyIdle /\ GrIdle /\ MnIdle
TokenizeNext == Tokenize /\ UNCHANGED <<crVars, syVars, grVars, mnVars>>
SpecTokenize == InitTokenize /\ [][TokenizeNext]_vars

InitCompress == TkIdle /\ CrInit /\ SyIdle /\ GrIdle /\ MnIdle
CompressNext == Compress /\ UNCHANGED <<tkVars, syVars, grVars, mnVars>>
SpecCompress == InitCompress /\ [][CompressNext]_vars

InitSynth == TkIdle /\ CrIdle /\ SyInit /\ GrIdle /\ MnIdle
SynthNext == Synthesize /\ UNCHANGED <<tkVars, crVars, grVars, mnVars>>
SpecSynth == InitSynth /\ [][SynthNext]_vars

InitRule == TkIdle /\ CrIdle /\ SyIdle /\ GrInit /\ MnIdle
RuleNext == IsGoodRule /\ UNCHANGED <<tkVars, crVars, syVars, mnVars>>
SpecRule == InitRule /\ [][RuleNext]_vars

InitMain == TkIdle /\ CrIdle /\ SyIdle /\ GrIdle /\ MnInit
MainNext ==
  \/ LoadHosts
  \/ BuildTable
  \/ GlobalSweep
  \/ SweepDone
  \/ NgramStep
  \/ NgramsDone
  \/ SecondChance
  \/ ThirdChance
SpecMain == InitMain /\ [][MainNext]_vars

(***************************************************************************)
(* Claims.                                                                 *)
(***************************************************************************)

\* the start offsets (1-based) of the tokens of one level within its label
RECURSIVE TokenStarts(_, _)
TokenStarts(tokens, at) ==
  IF tokens = <<>> THEN {}
  ELSE {at} \cup TokenStarts(Tail(tokens), at + Len(tokens[1]))

\* the token of the level that starts at offset at
RECURSIVE TokenStartingAt(_, _, _)
TokenStartingAt(tokens, at, cur) ==
  IF cur = at THEN tokens[1]
  ELSE TokenStartingAt(Tail(tokens), at, cur + Len(tokens[1]))

TkLabels == Split(Subdomain(tk_item), ".")

\* C10: tokenization is lossless and order-preserving: the tokens of each
\* level, concatenated in order, are that level's label; no token is empty;
\* a hyphen right before a digit run starts the token of that digit run,
\* which is the hyphen followed by digits only.
C10_TokenizeLossless ==
  tk_pc = "done" =>
    /\ Len(tk_ret) = Len(TkLabels)
    /\ \A i \in 1..Len(tk_ret) :
         LET label == TkLabels[i]
             toks == tk_ret[i]
         IN /\ Concat(toks) = label
            /\ \A t \in 1..Len(toks) : toks[t] # <<>>
            /\ \A p \in 1..Len(label) :
                 (label[p] = "-" /\ p < Len(label) /\ IsDigit(label[p + 1])) =>
                   /\ p \in TokenStarts(toks, 1)
                   /\ IsNumeric(Tail(TokenStartingAt(toks, p, 1)))

\* a hostname with a doubled hyphen before a number and a trailing hyphen
C10_Witness ==
  /\ tk_pc = "done"
  /\ tk_item = <<"-", "-", "1", "-">> \o <<".">> \o Target
  /\ tk_ret = << <<<<"-">>, <<"-", "1">>, <<"-">>>> >>

\* C2: every alternative of a group that compress_number_ranges rewrites is
\* matched by the expression put in the group's place.
C2_RoundTrip ==
  cr_pc = "done" =>
    \A rw \in AppliedRewrites(cr_regex, Rewrites(cr_regex), 1) :
      \A alt \in Range(Split(rw.rep, "|")) : FullMatch(rw.new, alt)

\* C1: the pattern closure_to_regex returns matches every member.
C1_MatchesMembers ==
  sy_pc = "done" => \A m \in Range(sy_members) : FullMatch(sy_ret, m)

\* C7: compressing an emitted pattern again changes nothing.
C7_Idempotent ==
  sy_pc = "done" => compress_number_ranges(sy_ret) = sy_ret

\* the ratio test of the claim: count / evidence_count < max_ratio
RatioBelow == gr_nwords * gr_ratio.den < gr_ratio.num * gr_nkeys

\* C6: a count below threshold is accepted whatever max_ratio is, and a
\* count at or above threshold is accepted exactly when the ratio of count
\* to evidence is below max_ratio.
C6_AcceptExactly ==
  gr_pc = "done" =>
    /\ gr_nwords < gr_threshold => gr_ret
    /\ gr_nwords >= gr_threshold => (gr_ret <=> RatioBelow)

\* the boundary count = threshold, rejected because the ratio is too high
C6_Witness ==
  /\ gr_pc = "done"
  /\ gr_nwords = gr_threshold
  /\ gr_nwords > 0
  /\ ~RatioBelow
  /\ ~gr_ret

\* C3: the distance edit_closures reads from the table for two hosts of the
\* working list is the edit distance of that pair, whichever is given
\* first, and 0 for a host and itself.
C3_ReadsPairDistance ==
  mn_pc \notin {"load", "memo"} =>
    \A a, b \in Range(known_hosts) : MemoGet(MEMO, a, b) = EditDistance(a, b)

\* C4: once the hosts file is loaded no malformed host is left in the
\* working list.
C4_NoMalformedLeft ==
  mn_pc # "load" => \A h \in Range(known_hosts) : WellFormed(h)

\* the neighbor-set of pivot a in the recorded call of edit_closures: a and
\* the hosts of the call whose edit distance to a is below delta
NeighborSet(a) ==
  {a} \cup {b \in Range(cl_items) : EditDistance(a, b) < cl_delta}

\* the first pivot of the recorded call whose neighbor-set is c
FirstPivot(c) == Min({i \in 1..Len(cl_items) : NeighborSet(cl_items[i]) = c})

\* C5: edit_closures returns the neighbor-sets of its pivots in first-seen
\* order: every entry is the neighbor-set of a pivot, every pivot's
\* neighbor-set is exactly one entry, and no two entries are equal.
C5_ClosuresAreNeighborSets ==
  cl_delta # 0 =>
    /\ \A k \in 1..Len(cl_ret) :
         \E i \in 1..Len(cl_items) : Range(cl_ret[k]) = NeighborSet(cl_items[i])
    /\ \A i \in 1..Len(cl_items) :
         Cardinality({k \in 1..Len(cl_ret) :
                        Range(cl_ret[k]) = NeighborSet(cl_items[i])}) = 1
    /\ \A k, l \in 1..Len(cl_ret) : k # l => Range(cl_ret[k]) # Range(cl_ret[l])
    /\ \A k, l \in 1..Len(cl_ret) :
         k < l => FirstPivot(Range(cl_ret[k])) < FirstPivot(Range(cl_ret[l]))

\* the second chance and the third chance of the prefix mn_prefix are over
PrefixFinished == mn_second # "none" /\ mn_pc # "third"

\* the pattern of the hosts under the prefix of the last second chance
PrefixPattern == closure_to_regex(Target, TrieKeys(trie, mn_prefix), mn_order)

\* the third chance swept every delta of [dist_low, dist_high) over the hosts
\* of the prefix, and synthesized and tested every closure of each delta
ThirdSweptAll ==
  LET ks == TrieKeys(trie, mn_prefix)
  IN /\ Len(mn_third) = DistHigh - DistLow
     /\ \A i \in 1..Len(mn_third) :
          /\ mn_third[i].k = DistLow + i - 1
          /\ {Range(c) : c \in Range(mn_third[i].closures)} =
               {{a} \cup {b \in Range(ks) : MemoGet(MEMO, a, b) < mn_third[i].k} :
                  a \in Range(ks)}
          /\ \A c \in Range(mn_third[i].closures) :
               LET r == closure_to_regex(Target, SetIter(c, mn_order), mn_order)
               IN r \in new_rules \/ r \in DOMAIN oracle

\* C8 as stated: every prefix of more than one character gets the third
\* chance, whatever the outcome of its second chance.
C8_ThirdChanceAlways ==
  (PrefixFinished /\ Len(mn_prefix) > 1) => ThirdSweptAll

\* C8 as amended: every prefix of more than one character gets the third
\* chance unless the second chance rejected it as redundant; a prefix
\* rejected as redundant is skipped without a third chance.
C8_ThirdChanceUnlessRedundant ==
  (PrefixFinished /\ Len(mn_prefix) > 1) =>
    IF mn_second = "redundant" THEN mn_third = <<>> ELSE ThirdSweptAll

\* a prefix of three characters whose pattern failed the second chance and
\* whose hosts were then swept
C8_Witness ==
  /\ PrefixFinished
  /\ Len(mn_prefix) > 2
  /\ mn_second = "failed"
  /\ Len(mn_third) = DistHigh - DistLow

ProperExtension(q, p) == q # p /\ StartsWith(q, p)

\* C9: in one walk a prefix whose pattern is new and acceptable has the
\* pattern added by the second chance unless it properly extends the
\* prefix accepted last before it; so no prefix whose pattern the second
\* chance added in the walk properly extends another.
C9_ShortestOfNestedKept ==
  /\ last = (IF mn_added = <<>> THEN None ELSE mn_added[Len(mn_added)])
  /\ mn_second = "redundant" =>
       /\ mn_added # <<>>
       /\ ProperExtension(mn_prefix, mn_added[Len(mn_added)])
       /\ PrefixPattern \notin new_rules
  /\ mn_second = "accepted" =>
       /\ mn_added # <<>>
       /\ mn_added[Len(mn_added)] = mn_prefix
       /\ Len(mn_added) >= 2 =>
            ~ProperExtension(mn_prefix, mn_added[Len(mn_added) - 1])
       /\ PrefixPattern \in new_rules
  /\ \A i, j \in 1..Len(mn_added) :
       ~ProperExtension(mn_added[i], mn_added[j])

\* a prefix with a new, acceptable pattern rejected for extending the
\* prefix accepted before it
C9_Witness ==
  /\ mn_second = "redundant"
  /\ mn_added = << <<"a", "b">> >>
  /\ mn_prefix = <<"a", "b", "c">>
====
